---- MODULE Spec2Model ----
(***************************************************************************)
(* Model of the TRENT-OS UART tester: the ring buffer of ringbuffer.h, the  *)
(* byte-sequence validator do_process, and the ingest loop (blocking_read,  *)
(* process_data, do_run_test, run) in its three revisions:                  *)
(*   "A"  src/uart_tester.c      (drain-all process_data)                   *)
(*   "B"  src/unnamed/part_003   (watermark revision)                       *)
(*   "C"  src/unnamed/part_004   (read_data revision)                       *)
(* The dataport FIFO of the UART driver and the event of uart_event_wait    *)
(* are the environment; they are modelled from their interface contract.    *)
(***************************************************************************)
EXTENDS Integers, Sequences, FiniteSets, TLC

\* ------------------------------------------------------------------ bounds
\* Capacities tried for the stand-alone ring buffer (0 is the degenerate one).
MaxCap == 3
\* Largest length requested from ringbuffer_write/read/flush (exceeds MaxCap).
MaxLen == 4
\* Bytes offered to the stand-alone ring buffer in one behaviour.
MaxTotal == 6

\* ------------------------------------------------------------- arithmetic
Min(a, b) == IF a < b THEN a ELSE b

\* uint8_t arithmetic
ByteMod == 256
\* size_t arithmetic; the width is scaled to 16 bits because TLC's integers
\* are 32 bits wide (the targets have a 32 or 64 bit size_t).
SizeMod == 2^16

\* the byte stream offered to the stand-alone ring buffer: position i (from 0)
\* carries the value i mod 256, so that every byte of a short run is distinct
StreamByte(i) == i % ByteMod

\* ------------------------------------------------------------ ringbuffer.h
\* A ring buffer is [buffer, capacity, head, used]; buffer is indexed from 0.
\* Every operation returns the new ring buffer, the C return value and "ok",
\* which is FALSE when one of the function's assert()s fails (the model then
\* goes on as the NDEBUG build does).

ringbuffer_getCappedLenOk(self, pos, len) == pos < self.capacity

\* (mutant: the length is not capped)
ringbuffer_getCappedLen_uncapped(self, pos, len) ==
    IF pos >= self.capacity THEN 0 ELSE len

\* (mutant: the length is capped one byte short of the end of the storage)
ringbuffer_getCappedLen_short(self, pos, len) ==
    IF pos >= self.capacity
    THEN 0
    ELSE LET len_remaining == self.capacity - pos - 1
         IN  IF len > len_remaining THEN len_remaining ELSE len

ringbuffer_getCappedLen(self, pos, len) ==
    IF pos >= self.capacity
    THEN 0
    ELSE LET len_remaining == self.capacity - pos
         IN  IF len > len_remaining THEN len_remaining ELSE len

\* ringbuffer_clear
ringbuffer_clear(self) == [self EXCEPT !.head = 0, !.used = 0]

\* ringbuffer_init: static storage, zero-initialised
ringbuffer_init(len) ==
    ringbuffer_clear([buffer |-> [i \in 0..(len - 1) |-> 0],
                      capacity |-> len, head |-> 0, used |-> 0])

ringbuffer_getCapacity(self) == self.capacity
ringbuffer_getUsed(self) == self.used
ringbuffer_isEmpty(self) == (0 = self.used)
ringbuffer_getFree(self) == self.capacity - self.used
\* (mutant: a buffer without storage is not full)
ringbuffer_isFull_storage(self) == (self.capacity = self.used) /\ self.capacity > 0

ringbuffer_isFull(self) == (self.capacity = self.used)

\* (mutant: the copy always starts at the beginning of src)
MemcpyIn_noOff(buf, dst, src, off, n) ==
    [i \in DOMAIN buf |->
        IF dst <= i /\ i < dst + n THEN src[(i - dst) + 1] ELSE buf[i]]

\* memcpy(&buf[dst], &src[off], n); src is a sequence (indexed from 1)
MemcpyIn(buf, dst, src, off, n) ==
    [i \in DOMAIN buf |->
        IF dst <= i /\ i < dst + n THEN src[off + (i - dst) + 1] ELSE buf[i]]

\* (mutant: the copy always starts at the beginning of the storage)
MemcpyOut_base(buf, pos, n) == [k \in 1..n |-> buf[k - 1]]

\* the n bytes memcpy(dst, &buf[pos], n) delivers; a read outside the storage
\* is marked -2
MemcpyOut(buf, pos, n) ==
    [k \in 1..n |-> IF (pos + k - 1) \in DOMAIN buf THEN buf[pos + k - 1] ELSE -2]

\* ringbuffer_write: the position of the first free byte
\* (mutant: the used bytes are not skipped)
ringbuffer_writePos_head(self) == self.head % self.capacity

ringbuffer_writePos(self) == (self.head + self.used) % self.capacity

\* (mutant: the caller is told the requested length was written)
ringbuffer_write_retreq(self, src, reqlen) ==
    LET free == self.capacity - self.used
        len  == IF reqlen > free THEN free ELSE reqlen
    IN  [rb  |-> IF len > 0
                 THEN [self EXCEPT
                         !.buffer = [i \in DOMAIN self.buffer |->
                            LET k == (i - ringbuffer_writePos(self)) % self.capacity
                            IN  IF k < len THEN src[k + 1] ELSE self.buffer[i]],
                         !.used = self.used + len]
                 ELSE self,
         ret |-> reqlen,
         ok  |-> TRUE]

ringbuffer_write(self, src, reqlen) ==
    LET used == self.used
        free == self.capacity - used
        len  == IF reqlen > free THEN free ELSE reqlen
    IN  IF len > 0
        THEN LET pos_head == self.head
                 pos_free == ringbuffer_writePos(self)
                 len1 == ringbuffer_getCappedLen(self, pos_free, len)
                 buf1 == MemcpyIn(self.buffer, pos_free, src, 0, len1)
                 buf2 == IF len > len1
                         THEN MemcpyIn(buf1, 0, src, len1, len - len1)
                         ELSE buf1
             IN  [rb  |-> [self EXCEPT !.buffer = buf2, !.used = used + len],
                  ret |-> len,
                  ok  |-> /\ used <= self.capacity
                          /\ pos_head < self.capacity
                          /\ ringbuffer_getCappedLenOk(self, pos_free, len)
                          /\ len1 > 0
                          /\ (len > len1 => pos_free + len1 = self.capacity)
                          /\ used + len <= self.capacity]
        ELSE [rb |-> self, ret |-> len, ok |-> used <= self.capacity]

\* ringbuffer_read: the new head after len bytes were removed
\* (mutant: the head does not wrap)
ringbuffer_readHead_nowrap(self, len) == self.head + len

ringbuffer_readHead(self, len) == (self.head + len) % self.capacity

\* ringbuffer_read; copy = FALSE is a NULL dst (ringbuffer_flush).  "data" is
\* what arrives in dst.
ringbuffer_read(self, copy, reqlen) ==
    LET used == self.used
        len  == IF reqlen > used THEN used ELSE reqlen
    IN  IF len > 0
        THEN LET pos_head == self.head
                 len1 == ringbuffer_getCappedLen(self, pos_head, len)
                 out  == IF copy
                         THEN MemcpyOut(self.buffer, pos_head, len1)
                              \o (IF len > len1
                                  THEN MemcpyOut(self.buffer, 0, len - len1)
                                  ELSE << >>)
                         ELSE << >>
             IN  [rb  |-> [self EXCEPT !.head = ringbuffer_readHead(self, len),
                                       !.used = used - len],
                  ret |-> len,
                  data |-> out,
                  ok  |-> /\ used <= self.capacity
                          /\ pos_head < self.capacity
                          /\ (copy => /\ ringbuffer_getCappedLenOk(self, pos_head, len)
                                      /\ len1 > 0
                                      /\ (len > len1 =>
                                            pos_head + len1 = self.capacity))
                          /\ 0 # self.capacity]
        ELSE [rb |-> self, ret |-> len, data |-> << >>,
              ok |-> used <= self.capacity]

\* (mutant: a length of 0 stands for everything in use)
ringbuffer_flush_all(self, len) ==
    ringbuffer_read(self, FALSE, IF len = 0 THEN self.used ELSE len)

ringbuffer_flush(self, len) == ringbuffer_read(self, FALSE, len)

\* (mutant: the pointer is the start of the storage)
ringbuffer_getReadPtr_base(self) ==
    [ptr |-> 0,
     ret |-> ringbuffer_getCappedLen(self, self.head, self.used),
     ok  |-> self.used <= self.capacity /\ self.head < self.capacity]

\* ringbuffer_getReadPtr: ptr is the offset of *ptr in the storage
ringbuffer_getReadPtr(self) ==
    LET used == self.used
        pos_head == self.head
    IN  [ptr |-> pos_head,
         ret |-> ringbuffer_getCappedLen(self, pos_head, used),
         ok  |-> /\ used <= self.capacity
                 /\ pos_head < self.capacity
                 /\ ringbuffer_getCappedLenOk(self, pos_head, used)]

\* the unread bytes in FIFO order (a view, not an operation of the code)
RbContents(self) ==
    [k \in 1..self.used |-> self.buffer[(self.head + k - 1) % self.capacity]]

\* --------------------------------------------------------------- validator
OS_SUCCESS == "OS_SUCCESS"
OS_ERROR_GENERIC == "OS_ERROR_GENERIC"
OS_ERROR_INVALID_STATE == "OS_ERROR_INVALID_STATE"
OS_ERROR_OVERFLOW_DETECTED == "OS_ERROR_OVERFLOW_DETECTED"

\* sizeof(ctx->data_window)
WindowSize == 6

\* test_ctx_t ctx = { 0 } (without rb and uart_fifo, which are variables of
\* their own); watermark is used by revision B, processing_boost by C
InitCtx ==
    [expecting_byte |-> 0, bytes_processed |-> 0,
     data_window |-> [k \in 1..WindowSize |-> 0],
     watermark |-> 0, processing_boost |-> 0]

\* memmove(data_window, &data_window[1], sizeof(data_window)-1): the last
\* slot keeps its value
WindowShift(w) == [k \in 1..WindowSize |-> IF k < WindowSize THEN w[k + 1] ELSE w[k]]

\* (mutant: no resynchronisation on a mismatch)
do_process_noresync(rv, ctx, data_byte) ==
    LET shifted == WindowShift(ctx.data_window)
        window == IF rv = "C" THEN shifted
                  ELSE [shifted EXCEPT ![WindowSize] = data_byte]
        err == (data_byte # ctx.expecting_byte)
        expecting == (ctx.expecting_byte + 1) % ByteMod
    IN  [ctx |-> [ctx EXCEPT !.data_window = window,
                             !.expecting_byte = expecting,
                             !.bytes_processed = (ctx.bytes_processed + 1) % SizeMod],
         ret |-> IF err THEN OS_ERROR_INVALID_STATE ELSE OS_SUCCESS,
         report |-> IF err
                    THEN << [bytes_processed |-> ctx.bytes_processed,
                             expected |-> ctx.expecting_byte,
                             read |-> data_byte,
                             window |-> window] >>
                    ELSE << >>]

\* (mutant: expecting_byte is wider than a byte)
do_process_nowrap(rv, ctx, data_byte) ==
    LET shifted == WindowShift(ctx.data_window)
        window == IF rv = "C" THEN shifted
                  ELSE [shifted EXCEPT ![WindowSize] = data_byte]
        err == (data_byte # ctx.expecting_byte)
        expecting == IF err THEN data_byte + 1
                     ELSE ctx.expecting_byte + 1
    IN  [ctx |-> [ctx EXCEPT !.data_window = window,
                             !.expecting_byte = expecting,
                             !.bytes_processed = (ctx.bytes_processed + 1) % SizeMod],
         ret |-> IF err THEN OS_ERROR_INVALID_STATE ELSE OS_SUCCESS,
         report |-> IF err
                    THEN << [bytes_processed |-> ctx.bytes_processed,
                             expected |-> ctx.expecting_byte,
                             read |-> data_byte,
                             window |-> window] >>
                    ELSE << >>]

\* (mutant: the diagnostic is logged after bytes_processed was incremented)
do_process_counted(rv, ctx, data_byte) ==
    LET shifted == WindowShift(ctx.data_window)
        window == IF rv = "C" THEN shifted
                  ELSE [shifted EXCEPT ![WindowSize] = data_byte]
        err == (data_byte # ctx.expecting_byte)
        expecting == IF err THEN (data_byte + 1) % ByteMod
                     ELSE (ctx.expecting_byte + 1) % ByteMod
    IN  [ctx |-> [ctx EXCEPT !.data_window = window,
                             !.expecting_byte = expecting,
                             !.bytes_processed = (ctx.bytes_processed + 1) % SizeMod],
         ret |-> IF err THEN OS_ERROR_INVALID_STATE ELSE OS_SUCCESS,
         report |-> IF err
                    THEN << [bytes_processed |-> (ctx.bytes_processed + 1) % SizeMod,
                             expected |-> ctx.expecting_byte,
                             read |-> data_byte,
                             window |-> window] >>
                    ELSE << >>]

\* (mutant: on a mismatch the byte itself becomes the expectation)
do_process_same(rv, ctx, data_byte) ==
    LET shifted == WindowShift(ctx.data_window)
        window == IF rv = "C" THEN shifted
                  ELSE [shifted EXCEPT ![WindowSize] = data_byte]
        err == (data_byte # ctx.expecting_byte)
        expecting == IF err THEN data_byte
                     ELSE (ctx.expecting_byte + 1) % ByteMod
    IN  [ctx |-> [ctx EXCEPT !.data_window = window,
                             !.expecting_byte = expecting,
                             !.bytes_processed = (ctx.bytes_processed + 1) % SizeMod],
         ret |-> IF err THEN OS_ERROR_INVALID_STATE ELSE OS_SUCCESS,
         report |-> IF err
                    THEN << [bytes_processed |-> ctx.bytes_processed,
                             expected |-> ctx.expecting_byte,
                             read |-> data_byte,
                             window |-> window] >>
                    ELSE << >>]

\* do_process: returns the new context, the return code and the diagnostic
\* logged on a mismatch (at most one).  Revision C does not store data_byte
\* in the last slot of the window.
do_process(rv, ctx, data_byte) ==
    LET shifted == WindowShift(ctx.data_window)
        window == IF rv = "C" THEN shifted
                  ELSE [shifted EXCEPT ![WindowSize] = data_byte]
        err == (data_byte # ctx.expecting_byte)
        expecting == IF err THEN (data_byte + 1) % ByteMod
                     ELSE (ctx.expecting_byte + 1) % ByteMod
    IN  [ctx |-> [ctx EXCEPT !.data_window = window,
                             !.expecting_byte = expecting,
                             !.bytes_processed = (ctx.bytes_processed + 1) % SizeMod],
         ret |-> IF err THEN OS_ERROR_INVALID_STATE ELSE OS_SUCCESS,
         report |-> IF err
                    THEN << [bytes_processed |-> ctx.bytes_processed,
                             expected |-> ctx.expecting_byte,
                             read |-> data_byte,
                             window |-> window] >>
                    ELSE << >>]

\* --------------------------------------------------------- process_data
\* The processing state threaded through a call of process_data: the context,
\* the bytes passed to do_process ("fed") and the diagnostics logged.
PdStart(ctx) == [ctx |-> ctx, fed |-> << >>, reports |-> << >>]

PdFeed(rv, s, b) ==
    LET r == do_process(rv, s.ctx, b)
    IN  [s |-> [ctx |-> r.ctx, fed |-> Append(s.fed, b),
                reports |-> s.reports \o r.report],
         ret |-> r.ret]

\* (mutant: the region is read one byte too far)
RegionBytes_off(self, ptr, len) ==
    [k \in 1..len |-> self.buffer[(ptr + k) % self.capacity]]

\* the bytes behind the pointer ringbuffer_getReadPtr returned
RegionBytes(self, ptr, len) == [k \in 1..len |-> self.buffer[ptr + k - 1]]

\* the inner for loop of revisions A and B over buffer[cnt_processed..len-1]:
\* stops at the first byte do_process rejects; cnt is cnt_processed at exit
RECURSIVE ForLoop(_, _, _, _)
ForLoop(rv, s, bytes, cnt) ==
    IF cnt >= Len(bytes)
    THEN [s |-> s, cnt |-> cnt, err |-> FALSE]
    ELSE LET f == PdFeed(rv, s, bytes[cnt + 1])
         IN  IF f.ret # OS_SUCCESS
             THEN [s |-> f.s, cnt |-> cnt, err |-> TRUE]
             ELSE ForLoop(rv, f.s, bytes, cnt + 1)

PdResult(s, self, ret, flushed, ok) ==
    [ctx |-> s.ctx, rb |-> self, ret |-> ret, fed |-> s.fed,
     reports |-> s.reports, flushed |-> flushed, ok |-> ok]

\* revision A (src/uart_tester.c): process until the ring buffer is empty
RECURSIVE PdLoopA(_, _, _, _)
PdLoopA(s, self, flushed, ok) ==
    LET g == ringbuffer_getReadPtr(self)
    IN  IF 0 = g.ret
        THEN PdResult(s, self, OS_SUCCESS, flushed, ok /\ g.ok)
        ELSE LET f == ForLoop("A", s, RegionBytes(self, g.ptr, g.ret), 0)
             IN  IF f.err
                 THEN PdResult(f.s, self, OS_ERROR_GENERIC, flushed, ok /\ g.ok)
                 ELSE LET fl == ringbuffer_flush(self, g.ret)
                      IN  PdLoopA(f.s, fl.rb, flushed + fl.ret, ok /\ g.ok /\ fl.ok)

process_data_A(ctx, self) == PdLoopA(PdStart(ctx), self, 0, TRUE)

\* revision B (src/unnamed/part_003): the default quota
DefaultBoost == 16

\* (mutant: the unsigned difference is taken at every fill level)
BoostB_unguarded(ctx, self) ==
    LET boost == DefaultBoost
        boost2 == (ringbuffer_getUsed(self) - ctx.watermark) % SizeMod
    IN  IF boost2 > boost THEN boost2 ELSE boost

\* (mutant: the quota is not raised above the watermark)
BoostB_default(ctx, self) == DefaultBoost

\* the quota computed at the entry of process_data in revision B
BoostB(ctx, self) ==
    LET boost == DefaultBoost
        used == ringbuffer_getUsed(self)
    IN  IF used > ctx.watermark
        THEN LET boost2 == used - ctx.watermark
             IN  IF boost2 > boost THEN boost2 ELSE boost
        ELSE boost

\* (mutant: the quota is ignored, as in revision A)
PdLoopB_all(s, self, boost, flushed, ok) == PdLoopA(s, self, flushed, ok)

RECURSIVE PdLoopB(_, _, _, _, _)
PdLoopB(s, self, boost, flushed, ok) ==
    IF ~(boost > 0)
    THEN PdResult(s, self, OS_SUCCESS, flushed, ok)
    ELSE LET g == ringbuffer_getReadPtr(self)
         IN  IF 0 = g.ret
             THEN PdResult(s, self, OS_SUCCESS, flushed, ok /\ g.ok)
             ELSE LET len == IF g.ret > boost THEN boost ELSE g.ret
                      f == ForLoop("B", s, RegionBytes(self, g.ptr, len), 0)
                      fl == IF f.cnt > 0
                            THEN ringbuffer_flush(self, f.cnt)
                            ELSE [rb |-> self, ret |-> 0, ok |-> TRUE]
                  IN  IF f.cnt # len
                      THEN PdResult(f.s, fl.rb, OS_ERROR_GENERIC,
                                    flushed + fl.ret, ok /\ g.ok /\ fl.ok)
                      ELSE PdLoopB(f.s, fl.rb, boost - len,
                                   flushed + fl.ret, ok /\ g.ok /\ fl.ok)

process_data_B(ctx, self) ==
    PdLoopB(PdStart(ctx), self, BoostB(ctx, self), 0, TRUE)

\* revision C (src/unnamed/part_004): the inner for loop with the
\* post-decremented processing_boost; exit is "end", "err" or "boost"
\* (mutant: the quota is tested before the byte is processed)
RECURSIVE ForLoopC_pre(_, _, _, _)
ForLoopC_pre(s, bytes, cnt, boost) ==
    IF cnt >= Len(bytes)
    THEN [s |-> s, cnt |-> cnt, exit |-> "end", boost |-> boost]
    ELSE IF 0 = boost
         THEN [s |-> s, cnt |-> cnt - 1, exit |-> "boost", boost |-> boost]
         ELSE LET f == PdFeed("C", s, bytes[cnt + 1])
              IN  IF f.ret # OS_SUCCESS
                  THEN [s |-> f.s, cnt |-> cnt, exit |-> "err", boost |-> boost]
                  ELSE ForLoopC_pre(f.s, bytes, cnt + 1, (boost - 1) % SizeMod)

RECURSIVE ForLoopC(_, _, _, _)
ForLoopC(s, bytes, cnt, boost) ==
    IF cnt >= Len(bytes)
    THEN [s |-> s, cnt |-> cnt, exit |-> "end", boost |-> boost]
    ELSE LET f == PdFeed("C", s, bytes[cnt + 1])
         IN  IF f.ret # OS_SUCCESS
             THEN [s |-> f.s, cnt |-> cnt, exit |-> "err", boost |-> boost]
             ELSE IF 0 = boost
                  THEN [s |-> f.s, cnt |-> cnt, exit |-> "boost",
                        boost |-> (boost - 1) % SizeMod]
                  ELSE ForLoopC(f.s, bytes, cnt + 1, (boost - 1) % SizeMod)

RECURSIVE PdLoopC(_, _, _, _, _)
PdLoopC(s, self, boost, flushed, ok) ==
    LET g == ringbuffer_getReadPtr(self)
    IN  IF 0 = g.ret
        THEN PdResult(s, self, OS_SUCCESS, flushed, ok /\ g.ok)
        ELSE LET f == ForLoopC(s, RegionBytes(self, g.ptr, g.ret), 0, boost)
                 n == CASE f.exit = "err" -> f.cnt
                        [] f.exit = "boost" -> f.cnt + 1
                        [] OTHER -> g.ret
                 fl == IF f.exit = "err" /\ ~(f.cnt > 0)
                       THEN [rb |-> self, ret |-> 0, ok |-> TRUE]
                       ELSE ringbuffer_read(self, FALSE, n)
             IN  CASE f.exit = "err" ->
                        PdResult(f.s, fl.rb, OS_ERROR_GENERIC,
                                 flushed + fl.ret, ok /\ g.ok /\ fl.ok)
                   [] f.exit = "boost" ->
                        PdResult(f.s, fl.rb, OS_SUCCESS,
                                 flushed + fl.ret, ok /\ g.ok /\ fl.ok)
                   [] OTHER ->
                        PdLoopC(f.s, fl.rb, f.boost,
                                flushed + fl.ret, ok /\ g.ok /\ fl.ok)

process_data_C(ctx, self) ==
    PdLoopC(PdStart(ctx), self, ctx.processing_boost, 0, TRUE)

process_data(rv, ctx, self) ==
    CASE rv = "A" -> process_data_A(ctx, self)
      [] rv = "B" -> process_data_B(ctx, self)
      [] OTHER    -> process_data_C(ctx, self)

\* ------------------------------------------------- dataport FIFO (driver)
\* The FIFO in the dataport shared with the UART driver: [data, first], data
\* being the queued bytes in order and first the storage offset of the oldest.

\* capacity of the dataport FIFO, in the small and in the large configuration
FifoCapSmall == 5
FifoCapLarge == 18

\* FifoDataport_getSize
FifoDataport_getSize(f) == Len(f.data)
\* FifoDataport_isEmpty
FifoDataport_isEmpty(f) == Len(f.data) = 0
\* FifoDataport_getContiguous / FifoDataport_getAmountConsecutives: the length
\* of the run of queued bytes that does not wrap in the storage
FifoDataport_getContiguous(f) == Min(Len(f.data), f.cap - f.first)
\* FifoDataport_remove: release n bytes from the front
FifoDataport_remove(f, n) ==
    [data |-> SubSeq(f.data, n + 1, Len(f.data)), first |-> (f.first + n) % f.cap,
     cap |-> f.cap]
\* the driver's write of one byte (the caller checks for space)
FifoDataport_write(f, b) == [f EXCEPT !.data = Append(f.data, b)]

\* ------------------------------------------------------------ bounds (loop)
\* sizeof(fifo_buffer), scaled down
InternalFifoSizeSmall == 4
InternalFifoSizeLarge == 17
\* bytes the driver offers in one behaviour
MaxProducedSmall == 6
MaxProducedLarge == 19
\* corrupted bytes in one behaviour
MaxCorruptSmall == 1
MaxCorruptLarge == 0
\* the value of a corrupted byte
CorruptByte == 99

Revisions == {"A", "B", "C"}

\* The configurations the loop is run in.  Every revision runs in the small
\* one.  Revision B also runs in the large one: its quota of 16 bytes per call
\* of process_data only leaves a backlog once a run of more than 16 bytes has
\* been drained.
SmallConfig(rv) ==
    [rev |-> rv, size |-> InternalFifoSizeSmall, fifo |-> FifoCapSmall,
     produced |-> MaxProducedSmall, corrupt |-> MaxCorruptSmall]
LargeConfig(rv) ==
    [rev |-> rv, size |-> InternalFifoSizeLarge, fifo |-> FifoCapLarge,
     produced |-> MaxProducedLarge, corrupt |-> MaxCorruptLarge]
Configs == {SmallConfig(rv) : rv \in Revisions} \cup {LargeConfig("B")}

\* ---------------------------------------------------------------- state
VARIABLES
    rev,          \* the revision of the tester that runs
    limit,        \* what the driver may do: [produced, corrupt]
    pc,           \* the consumer's position
    rb,           \* ctx.rb
    ctx,          \* the other fields of test_ctx_t
    is_overflow,  \* blocking_read's local
    avail,        \* blocking_read's local
    br_ret,       \* the last return value of blocking_read ("none" before)
    pd_ret,       \* the last return value of process_data ("none" before)
    do_ret,       \* the return value of do_run_test ("none" while it runs)
    run_ret,      \* the return value of run() ("none" while it runs)
    asserts_ok,   \* no assert() has failed so far
    fifo,         \* the dataport FIFO
    overflow,     \* the overflow flag in the last byte of the dataport
    event,        \* a pending uart_event notification
    ppc,          \* the driver: "idle", or "sig" when it owes a signal
    produced,     \* history: the bytes the driver enqueued
    validated,    \* history: the bytes passed to do_process
    reports,      \* history: the mismatch diagnostics logged
    drain,        \* history: the last drain step of blocking_read
    pd,           \* history: the last call of process_data
    woke,         \* history: uart_event_wait returned in the running blocking_read
    rbIn,         \* stand-alone ring buffer: bytes accepted by the writes
    rbOut,        \* stand-alone ring buffer: bytes removed (-1: flushed unseen)
    sumWritten,   \* stand-alone ring buffer: sum of ringbuffer_write's returns
    sumRead,      \* stand-alone ring buffer: sum of read's and flush's returns
    rbLast        \* stand-alone ring buffer: the last call and its result

loopVars == << rev, limit, pc, ctx, is_overflow, avail, br_ret, pd_ret, do_ret, run_ret,
               fifo, overflow, event, ppc, produced, validated, reports, drain, pd, woke >>
rbVars == << rbIn, rbOut, sumWritten, sumRead, rbLast >>
vars == << rb, asserts_ok, loopVars, rbVars >>

NoDrain == [avail |-> 0, copied |-> 0, released |-> 0]
NoPd == [used |-> 0, fed |-> 0, flushed |-> 0]
NoCall == [op |-> "init", len |-> 0, ret |-> 0, data |-> << >>]

\* ------------------------------------------------------------ do_run_test
\* ctx.watermark = (capacity / 2) + (capacity / 4), revision B only
Watermark(capacity) == (capacity \div 2) + (capacity \div 4)

\* the state when do_run_test enters its loop, in one of the configurations
\* cfgs
InitIn(cfgs) ==
    /\ \E cfg \in cfgs :
          /\ rev = cfg.rev
          /\ limit = [produced |-> cfg.produced, corrupt |-> cfg.corrupt]
          /\ rb = ringbuffer_init(cfg.size)
          /\ fifo = [data |-> << >>, first |-> 0, cap |-> cfg.fifo]
    /\ pc = "top"
    /\ ctx = [InitCtx EXCEPT !.watermark =
                IF rev = "B" THEN Watermark(ringbuffer_getCapacity(rb)) ELSE 0]
    /\ is_overflow = FALSE
    /\ avail = 0
    /\ br_ret = "none" /\ pd_ret = "none" /\ do_ret = "none" /\ run_ret = "none"
    /\ asserts_ok = TRUE
    /\ overflow = FALSE
    /\ event = FALSE
    /\ ppc = "idle"
    /\ produced = << >> /\ validated = << >> /\ reports = << >>
    /\ drain = NoDrain /\ pd = NoPd /\ woke = FALSE
    /\ rbIn = << >> /\ rbOut = << >> /\ sumWritten = 0 /\ sumRead = 0
    /\ rbLast = NoCall

Init == InitIn(Configs)

\* run(): the result code for do_run_test's return value
run(rv, ret) ==
    IF rv = "C" THEN 0
    ELSE IF OS_SUCCESS # ret THEN -1 ELSE 0

\* do_run_test returns ret, and run() returns to its caller
Return(ret) ==
    /\ pc' = "done"
    /\ do_ret' = ret
    /\ run_ret' = run(rev, ret)

\* revisions A and B: the loop calls blocking_read
CallBlockingRead ==
    /\ pc = "top" /\ rev \in {"A", "B"}
    /\ is_overflow' = FALSE
    /\ woke' = FALSE
    /\ pc' = "check"
    /\ UNCHANGED << rb, asserts_ok, rev, limit, ctx, avail, br_ret, pd_ret, do_ret, run_ret,
                    fifo, overflow, event, ppc, produced, validated, reports,
                    drain, pd, rbVars >>

\* is_fifo_overflow
is_fifo_overflow(flag) == flag

\* blocking_read: the overflow check at the head of an iteration
CheckOverflow ==
    /\ pc = "check"
    /\ is_overflow' = IF ~is_overflow /\ is_fifo_overflow(overflow)
                      THEN TRUE ELSE is_overflow
    /\ pc' = "get"
    /\ UNCHANGED << rb, asserts_ok, rev, limit, ctx, avail, br_ret, pd_ret, do_ret, run_ret,
                    fifo, overflow, event, ppc, produced, validated, reports,
                    drain, pd, woke, rbVars >>

\* (mutant: the overflow check comes before the drain)
AfterGet_ovfFirst(a, ovf, self) ==
    IF ovf THEN "fatal"
    ELSE IF a > 0 THEN "drain"
    ELSE IF ~ringbuffer_isEmpty(self) THEN "backlog"
    ELSE "wait"

\* (mutant: the backlog check comes before the drain)
AfterGet_backlogFirst(a, ovf, self) ==
    IF ~ringbuffer_isEmpty(self) THEN "backlog"
    ELSE IF a > 0 THEN "drain"
    ELSE IF ovf THEN "fatal"
    ELSE "wait"

\* (mutant: there is no backlog check)
AfterGet_noBacklog(a, ovf, self) ==
    IF a > 0 THEN "drain"
    ELSE IF ovf THEN "fatal"
    ELSE "wait"

\* (mutant: an observed overflow is not fatal)
AfterGet_noFatal(a, ovf, self) ==
    IF a > 0 THEN "drain"
    ELSE IF ~ringbuffer_isEmpty(self) THEN "backlog"
    ELSE "wait"

\* (mutant: with nothing new and nothing buffered the call returns at once)
AfterGet_noWait(a, ovf, self) ==
    IF a > 0 THEN "drain"
    ELSE IF ovf THEN "fatal"
    ELSE "backlog"

\* what blocking_read does once FifoDataport_getContiguous returned a:
\* "drain", "fatal", "backlog" or "wait"
AfterGet(a, ovf, self) ==
    IF a > 0 THEN "drain"
    ELSE IF ovf THEN "fatal"
    ELSE IF ~ringbuffer_isEmpty(self) THEN "backlog"
    ELSE "wait"

\* blocking_read: FifoDataport_getContiguous and, with no new data, the
\* overflow and the backlog checks
GetContiguous ==
    /\ pc = "get"
    /\ LET a == FifoDataport_getContiguous(fifo)
           next == AfterGet(a, is_overflow, rb)
       IN  /\ avail' = a
           /\ CASE next = "drain" ->
                     /\ pc' = "drain"
                     /\ UNCHANGED << br_ret, do_ret, run_ret, woke >>
                [] next = "fatal" ->
                     /\ br_ret' = OS_ERROR_OVERFLOW_DETECTED
                     /\ woke' = FALSE
                     /\ Return(OS_ERROR_GENERIC)
                [] next = "backlog" ->
                     /\ br_ret' = OS_SUCCESS
                     /\ woke' = FALSE
                     /\ pc' = "process"
                     /\ UNCHANGED << do_ret, run_ret >>
                [] OTHER ->
                     /\ pc' = "wait"
                     /\ UNCHANGED << br_ret, do_ret, run_ret, woke >>
    /\ UNCHANGED << rb, asserts_ok, rev, limit, ctx, is_overflow, pd_ret,
                    fifo, overflow, event, ppc, produced, validated, reports,
                    drain, pd, rbVars >>

\* (mutant: the whole run is released)
Released_avail(a, copied) == a

\* the number of bytes blocking_read releases of a run of a bytes after
\* copying "copied" of them
Released(a, copied) == copied

\* blocking_read with a run of a > 0 bytes: copy it into the ring buffer,
\* release what was copied and return
blocking_read_drain(self, f, a) ==
    LET w == ringbuffer_write(self, f.data, a)
        copied == w.ret
    IN  [rb |-> w.rb,
         fifo |-> IF 0 = copied THEN f
                  ELSE FifoDataport_remove(f, Released(a, copied)),
         copied |-> copied,
         ret |-> OS_SUCCESS,
         ok |-> w.ok /\ copied <= a]

Drain ==
    /\ pc = "drain"
    /\ LET d == blocking_read_drain(rb, fifo, avail)
       IN  /\ rb' = d.rb
           /\ asserts_ok' = (asserts_ok /\ d.ok)
           /\ fifo' = d.fifo
           /\ drain' = [avail |-> avail, copied |-> d.copied,
                        released |-> Len(fifo.data) - Len(d.fifo.data)]
           /\ br_ret' = d.ret
    /\ woke' = FALSE
    /\ pc' = "process"
    /\ UNCHANGED << rev, limit, ctx, is_overflow, avail, pd_ret, do_ret, run_ret,
                    overflow, event, ppc, produced, validated, reports, pd, rbVars >>

\* uart_event_wait returns once an event is pending, and consumes it
Wait ==
    /\ pc = "wait"
    /\ event
    /\ event' = FALSE
    /\ woke' = TRUE
    /\ pc' = IF rev = "C" THEN "c_read" ELSE "check"
    /\ UNCHANGED << rb, asserts_ok, rev, limit, ctx, is_overflow, avail, br_ret, pd_ret,
                    do_ret, run_ret, fifo, overflow, ppc, produced, validated,
                    reports, drain, pd, rbVars >>

\* the effect of a call of process_data on the state and the histories
DoProcessData(r, entry) ==
    /\ rb' = r.rb
    /\ ctx' = r.ctx
    /\ validated' = validated \o r.fed
    /\ reports' = reports \o r.reports
    /\ pd' = [used |-> entry.used, fed |-> Len(r.fed), flushed |-> r.flushed]
    /\ pd_ret' = r.ret
    /\ IF OS_SUCCESS # r.ret
       THEN Return(OS_ERROR_GENERIC)
       ELSE /\ pc' = "top"
            /\ UNCHANGED << do_ret, run_ret >>

\* revisions A and B: assert(!ringbuffer_isEmpty(rb)); process_data
Process ==
    /\ pc = "process"
    /\ LET r == process_data(rev, ctx, rb)
       IN  /\ asserts_ok' = (asserts_ok /\ ~ringbuffer_isEmpty(rb) /\ r.ok)
           /\ DoProcessData(r, rb)
    /\ UNCHANGED << rev, limit, is_overflow, avail, br_ret, fifo, overflow, event, ppc,
                    produced, drain, woke, rbVars >>

\* ------------------------------------------------------------- revision C
\* processing_boost set by do_run_test before read_data
LoopBoostC == 8
\* processing_boost set by read_data when there was new data
ReadBoostC == 16

\* read_data: drain one contiguous run and set the processing boost
read_data(c, self, f) ==
    LET a == FifoDataport_getContiguous(f)
    IN  IF 0 = a
        THEN [ctx |-> c, rb |-> self, fifo |-> f, avail |-> a, copied |-> 0,
              ok |-> TRUE]
        ELSE LET w == ringbuffer_write(self, f.data, a)
                 copied == w.ret
                 capacity == ringbuffer_getCapacity(w.rb)
                 used == ringbuffer_getUsed(w.rb)
                 watermark == (capacity \div 2) + (capacity \div 4)
                 boost == IF used <= watermark
                          THEN (used - watermark) % SizeMod
                          ELSE ReadBoostC
             IN  [ctx |-> [c EXCEPT !.processing_boost = boost],
                  rb |-> w.rb,
                  fifo |-> FifoDataport_remove(f, copied),
                  avail |-> a, copied |-> copied, ok |-> w.ok]

\* revision C: the emptiness test at the head of the loop
CheckEmptyC ==
    /\ pc = "top" /\ rev = "C"
    /\ pc' = IF ringbuffer_isEmpty(rb) /\ FifoDataport_isEmpty(fifo)
             THEN "c_ovf" ELSE "c_read"
    /\ UNCHANGED << rb, asserts_ok, rev, limit, ctx, is_overflow, avail, br_ret, pd_ret,
                    do_ret, run_ret, fifo, overflow, event, ppc, produced,
                    validated, reports, drain, pd, woke, rbVars >>

\* revision C: with nothing to do, the overflow flag decides between the
\* fatal return and uart_event_wait
CheckOverflowC ==
    /\ pc = "c_ovf"
    /\ IF overflow
       THEN Return(OS_ERROR_OVERFLOW_DETECTED)
       ELSE /\ pc' = "wait"
            /\ UNCHANGED << do_ret, run_ret >>
    /\ UNCHANGED << rb, asserts_ok, rev, limit, ctx, is_overflow, avail, br_ret, pd_ret,
                    fifo, overflow, event, ppc, produced, validated, reports,
                    drain, pd, woke, rbVars >>

\* revision C: processing_boost = 8; read_data; process_data
ReadProcessC ==
    /\ pc = "c_read"
    /\ LET rd == read_data([ctx EXCEPT !.processing_boost = LoopBoostC], rb, fifo)
           r == process_data(rev, rd.ctx, rd.rb)
       IN  /\ fifo' = rd.fifo
           /\ avail' = rd.avail
           /\ drain' = IF rd.avail > 0
                       THEN [avail |-> rd.avail, copied |-> rd.copied,
                             released |-> Len(fifo.data) - Len(rd.fifo.data)]
                       ELSE drain
           /\ asserts_ok' = (asserts_ok /\ rd.ok /\ r.ok)
           /\ DoProcessData(r, rd.rb)
    /\ woke' = FALSE
    /\ UNCHANGED << rev, limit, is_overflow, br_ret, overflow, event, ppc, produced, rbVars >>

\* ------------------------------------------------------- the UART driver
\* the byte the stream carries at position i, and what the driver may enqueue
\* there (the right byte or a corrupted one)
Corrupted(p) == Cardinality({i \in 1..Len(p) : p[i] # StreamByte(i - 1)})
ProducerBytes(p) ==
    {StreamByte(Len(p))} \cup (IF Corrupted(p) < limit.corrupt THEN {CorruptByte} ELSE {})

\* the driver puts a received byte into the dataport FIFO
ProducerEnqueue ==
    /\ Len(produced) < limit.produced
    /\ ~overflow
    /\ FifoDataport_getSize(fifo) < fifo.cap
    /\ \E b \in ProducerBytes(produced) :
          /\ fifo' = FifoDataport_write(fifo, b)
          /\ produced' = Append(produced, b)
    /\ ppc' = "sig"
    /\ UNCHANGED << rb, asserts_ok, rev, limit, pc, ctx, is_overflow, avail, br_ret, pd_ret,
                    do_ret, run_ret, overflow, event, validated, reports,
                    drain, pd, woke, rbVars >>

\* the driver finds the dataport FIFO full: it drops the byte, sets the
\* overflow flag and enqueues nothing until the flag is cleared (never, here)
ProducerOverflow ==
    /\ Len(produced) < limit.produced
    /\ ~overflow
    /\ FifoDataport_getSize(fifo) = fifo.cap
    /\ overflow' = TRUE
    /\ UNCHANGED << rb, asserts_ok, rev, limit, pc, ctx, is_overflow, avail, br_ret, pd_ret,
                    do_ret, run_ret, fifo, event, ppc, produced, validated,
                    reports, drain, pd, woke, rbVars >>

\* (mutant: the signal is dropped)
ProducerSignal_dropped ==
    /\ ppc = "sig"
    /\ ppc' = "idle"
    /\ UNCHANGED << rb, asserts_ok, rev, limit, pc, ctx, is_overflow, avail, br_ret, pd_ret,
                    do_ret, run_ret, fifo, overflow, event, produced, validated,
                    reports, drain, pd, woke, rbVars >>

\* the driver signals the event after it enqueued data
ProducerSignal ==
    /\ ppc = "sig"
    /\ event' = TRUE
    /\ ppc' = "idle"
    /\ UNCHANGED << rb, asserts_ok, rev, limit, pc, ctx, is_overflow, avail, br_ret, pd_ret,
                    do_ret, run_ret, fifo, overflow, produced, validated,
                    reports, drain, pd, woke, rbVars >>

Consumer ==
    \/ CallBlockingRead
    \/ CheckOverflow
    \/ GetContiguous
    \/ Drain
    \/ Wait
    \/ Process
    \/ CheckEmptyC
    \/ CheckOverflowC
    \/ ReadProcessC

Producer ==
    \/ ProducerEnqueue
    \/ ProducerOverflow
    \/ ProducerSignal

Next == Consumer \/ Producer

Spec == Init /\ [][Next]_vars

\* Revisions A and B, whose loop calls blocking_read, at the small scale.
InitAB == InitIn({SmallConfig("A"), SmallConfig("B")})

ConsumerAB ==
    \/ CallBlockingRead
    \/ CheckOverflow
    \/ GetContiguous
    \/ Drain
    \/ Wait
    \/ Process

NextAB == ConsumerAB \/ Producer

\* The tester can take a step everywhere but in uart_event_wait without the
\* event, and its steps are the steps that change its position.
Positions == {"top", "check", "get", "drain", "process", "wait", "done"}
ConsumerCanRun == pc \in Positions \ {"wait", "done"} \/ (pc = "wait" /\ event)
ConsumerMove == ConsumerCanRun /\ pc' \in Positions /\ pc' # pc

\* ConsumerMove stands for ConsumerAB in the fairness condition: they are
\* the same steps, and enabled in the same states (Process has no guard but
\* its position)
ConsumerMoveIsConsumerAB ==
    /\ [](pc # "process" => (ConsumerCanRun <=> ENABLED <<ConsumerAB>>_vars))
    /\ [][ConsumerMove <=> ConsumerAB]_vars

\* the tester runs whenever it can, and a signal the driver owes is delivered
FairSpec ==
    InitAB /\ [][NextAB]_vars /\ WF_pc(ConsumerMove) /\ WF_vars(ProducerSignal)

\* The same for the three revisions: revision C adds the positions of its
\* overflow test and of its read_data / process_data step.
InitABC == InitIn({SmallConfig(rv) : rv \in Revisions})
PositionsABC == Positions \cup {"c_ovf", "c_read"}
ConsumerCanRunABC ==
    pc \in PositionsABC \ {"wait", "done"} \/ (pc = "wait" /\ event)
ConsumerMoveABC == ConsumerCanRunABC /\ pc' \in PositionsABC /\ pc' # pc

\* ConsumerMoveABC stands for Consumer in the fairness condition
ConsumerMoveIsConsumer ==
    /\ [](pc \notin {"process", "c_read"} =>
             (ConsumerCanRunABC <=> ENABLED <<Consumer>>_vars))
    /\ [][ConsumerMoveABC <=> Consumer]_vars

FairSpecABC ==
    InitABC /\ [][Next]_vars /\ WF_pc(ConsumerMoveABC) /\ WF_vars(ProducerSignal)

\* ------------------------------------------- the ring buffer on its own
\* The ring buffer under every sequence of calls with every requested
\* length, after ringbuffer_init with a capacity of 0..MaxCap.  The other
\* variables rest.
InitRB ==
    /\ rev = "A"
    /\ pc = "rb"
    /\ \E c \in 0..MaxCap : rb = ringbuffer_init(c)
    /\ ctx = InitCtx
    /\ is_overflow = FALSE
    /\ avail = 0
    /\ br_ret = "none" /\ pd_ret = "none" /\ do_ret = "none" /\ run_ret = "none"
    /\ asserts_ok = TRUE
    /\ limit = [produced |-> 0, corrupt |-> 0]
    /\ fifo = [data |-> << >>, first |-> 0, cap |-> 0]
    /\ overflow = FALSE
    /\ event = FALSE
    /\ ppc = "idle"
    /\ produced = << >> /\ validated = << >> /\ reports = << >>
    /\ drain = NoDrain /\ pd = NoPd /\ woke = FALSE
    /\ rbIn = << >> /\ rbOut = << >> /\ sumWritten = 0 /\ sumRead = 0
    /\ rbLast = NoCall

\* the next len bytes of the stream, as the src of a write
NextSrc(len) == [k \in 1..len |-> StreamByte(Len(rbIn) + k - 1)]

RbWrite ==
    \E len \in 0..MaxLen :
        /\ Len(rbIn) + len <= MaxTotal
        /\ LET w == ringbuffer_write(rb, NextSrc(len), len)
           IN  /\ rb' = w.rb
               /\ asserts_ok' = (asserts_ok /\ w.ok)
               /\ rbIn' = rbIn \o SubSeq(NextSrc(len), 1, w.ret)
               /\ sumWritten' = sumWritten + w.ret
               /\ rbLast' = [op |-> "write", len |-> len, ret |-> w.ret,
                             data |-> << >>]
        /\ UNCHANGED << loopVars, rbOut, sumRead >>

RbRead ==
    \E len \in 0..MaxLen :
        /\ LET r == ringbuffer_read(rb, TRUE, len)
           IN  /\ rb' = r.rb
               /\ asserts_ok' = (asserts_ok /\ r.ok)
               /\ rbOut' = rbOut \o r.data
               /\ sumRead' = sumRead + r.ret
               /\ rbLast' = [op |-> "read", len |-> len, ret |-> r.ret,
                             data |-> r.data]
        /\ UNCHANGED << loopVars, rbIn, sumWritten >>

RbFlush ==
    \E len \in 0..MaxLen :
        /\ LET r == ringbuffer_flush(rb, len)
           IN  /\ rb' = r.rb
               /\ asserts_ok' = (asserts_ok /\ r.ok)
               /\ rbOut' = rbOut \o [k \in 1..r.ret |-> -1]
               /\ sumRead' = sumRead + r.ret
               /\ rbLast' = [op |-> "flush", len |-> len, ret |-> r.ret,
                             data |-> r.data]
        /\ UNCHANGED << loopVars, rbIn, sumWritten >>

RbGetReadPtr ==
    /\ LET g == ringbuffer_getReadPtr(rb)
       IN  /\ asserts_ok' = (asserts_ok /\ g.ok)
           /\ rbLast' = [op |-> "getReadPtr", len |-> g.ptr, ret |-> g.ret,
                         data |-> << >>]
    /\ UNCHANGED << rb, loopVars, rbIn, rbOut, sumWritten, sumRead >>

NextRB == RbWrite \/ RbRead \/ RbFlush \/ RbGetReadPtr

SpecRB == InitRB /\ [][NextRB]_vars

\* ------------------------------------------------- the validator on its own
\* do_process under a caller that goes on after a mismatch ("in case caller
\* wants to continue"), and under the for loop of process_data, which stops
\* at the first one.  Two configurations: a long stream without mismatches,
\* which passes the wrap of expecting_byte, and a short one with mismatches.

\* bytes fed in the long configuration
MaxFedClean == 258
\* bytes fed, and mismatches, in the short configuration
MaxFedCorrupt == 7
MaxMismatch == 3
\* bytes handed to the for loop of process_data at once
MaxBatch == 3

ValidatorConfigs ==
    {[produced |-> MaxFedClean, corrupt |-> 0],
     [produced |-> MaxFedCorrupt, corrupt |-> MaxMismatch]}

InitV ==
    /\ rev \in {"A", "B"}
    /\ pc = "v"
    /\ limit \in ValidatorConfigs
    /\ rb = ringbuffer_init(0)
    /\ ctx = InitCtx
    /\ is_overflow = FALSE
    /\ avail = 0
    /\ br_ret = "none" /\ pd_ret = "none" /\ do_ret = "none" /\ run_ret = "none"
    /\ asserts_ok = TRUE
    /\ fifo = [data |-> << >>, first |-> 0, cap |-> 0]
    /\ overflow = FALSE
    /\ event = FALSE
    /\ ppc = "idle"
    /\ produced = << >> /\ validated = << >> /\ reports = << >>
    /\ drain = NoDrain /\ pd = NoPd /\ woke = FALSE
    /\ rbIn = << >> /\ rbOut = << >> /\ sumWritten = 0 /\ sumRead = 0
    /\ rbLast = NoCall

\* the bytes a caller may pass next: the byte the sender's sequence has at
\* this position, the byte the validator expects, and two foreign ones
ValidatorInputs ==
    {StreamByte(Len(validated)), ctx.expecting_byte, CorruptByte, ByteMod - 1}

\* one call of do_process; pd_ret takes the code the caller received
ValidatorByte ==
    \E b \in ValidatorInputs :
        /\ pc = "v"
        /\ Len(validated) < limit.produced
        /\ LET r == do_process(rev, ctx, b)
           IN  /\ Len(reports) + Len(r.report) <= limit.corrupt
               /\ ctx' = r.ctx
               /\ validated' = Append(validated, b)
               /\ reports' = reports \o r.report
               /\ pd_ret' = r.ret
               /\ pd' = [used |-> 1, fed |-> 1, flushed |-> 0]
        /\ UNCHANGED << rev, limit, pc, rb, is_overflow, avail, br_ret, do_ret,
                        run_ret, asserts_ok, fifo, overflow, event, ppc,
                        produced, drain, woke, rbVars >>

\* the for loop of process_data over a region holding the next n bytes of
\* the sender's sequence
ValidatorBatch ==
    \E n \in 1..MaxBatch :
        /\ pc = "v"
        /\ Len(validated) + n <= limit.produced
        /\ LET bytes == [k \in 1..n |-> StreamByte(Len(validated) + k - 1)]
               f == ForLoop(rev, PdStart(ctx), bytes, 0)
           IN  /\ Len(reports) + Len(f.s.reports) <= limit.corrupt
               /\ ctx' = f.s.ctx
               /\ validated' = validated \o f.s.fed
               /\ reports' = reports \o f.s.reports
               /\ pd_ret' = IF f.err THEN OS_ERROR_GENERIC ELSE OS_SUCCESS
               /\ pd' = [used |-> n, fed |-> Len(f.s.fed), flushed |-> f.cnt]
        /\ UNCHANGED << rev, limit, pc, rb, is_overflow, avail, br_ret, do_ret,
                        run_ret, asserts_ok, fifo, overflow, event, ppc,
                        produced, drain, woke, rbVars >>

NextV == ValidatorByte \/ ValidatorBatch

SpecV == InitV /\ [][NextV]_vars

\* ---------------------------------------------- process_data on its own
\* process_data of revisions B and C called, again and again, on a ring
\* buffer in a state the loop can leave it in: any fill level, the head at
\* the start, in the middle or at the end of the storage, holding the
\* sender's sequence with at most one foreign byte.  The large capacity is
\* the smallest scale at which a fill level above the watermark asks for
\* more than the default quota of 16.

\* capacities of the ring buffer
PdCapSmall == 5
PdCapLarge == 68

PdCapacities == {PdCapSmall, PdCapLarge}
\* offsets of the head
PdHeads(cap) == {0, 1, cap \div 2, cap - 1}
\* position (from 1) of the foreign byte among the buffered ones; 0: none
PdBadPositions == {0, 1, 2, 18}
\* ctx.processing_boost at the call, revision C: as do_run_test and read_data
\* leave it, a wrapped difference included
PdBoosts == {0, 1, LoopBoostC, ReadBoostC, SizeMod - 1}

\* the n bytes buffered, the one at position bad replaced
PdBytes(n, bad) ==
    [k \in 1..n |-> IF k = bad THEN CorruptByte ELSE StreamByte(k - 1)]

\* a ring buffer of capacity cap with its head at h holding bytes
PdBuffer(cap, h, bytes) ==
    LET r0 == ringbuffer_init(cap)
        r1 == ringbuffer_write(r0, [k \in 1..h |-> 0], h).rb
        r2 == ringbuffer_flush(r1, h).rb
    IN  ringbuffer_write(r2, bytes, Len(bytes)).rb

InitPD ==
    /\ rev \in {"B", "C"}
    /\ pc = "pd"
    /\ \E cap \in PdCapacities, bad \in PdBadPositions :
         \E h \in PdHeads(cap), n \in 0..cap :
            /\ bad <= n
            /\ produced = PdBytes(n, bad)
            /\ rb = PdBuffer(cap, h, produced)
    /\ \E boost \in PdBoosts :
            ctx = [InitCtx EXCEPT
                     !.watermark = IF rev = "B"
                                   THEN Watermark(ringbuffer_getCapacity(rb))
                                   ELSE 0,
                     !.processing_boost = IF rev = "C" THEN boost ELSE 0]
    /\ limit = [produced |-> 0, corrupt |-> 0]
    /\ is_overflow = FALSE
    /\ avail = 0
    /\ br_ret = "none" /\ pd_ret = "none" /\ do_ret = "none" /\ run_ret = "none"
    /\ asserts_ok = TRUE
    /\ fifo = [data |-> << >>, first |-> 0, cap |-> 0]
    /\ overflow = FALSE
    /\ event = FALSE
    /\ ppc = "idle"
    /\ validated = << >> /\ reports = << >>
    /\ drain = NoDrain /\ pd = NoPd /\ woke = FALSE
    /\ rbIn = << >> /\ rbOut = << >> /\ sumWritten = 0 /\ sumRead = 0
    /\ rbLast = NoCall

\* the quota a call of process_data starts with
Quota == IF rev = "B" THEN BoostB(ctx, rb) ELSE ctx.processing_boost

\* one call of process_data; do_run_test of revision B calls it on a
\* non-empty ring buffer only, and no revision calls it again after an error
PdCall ==
    /\ pc = "pd"
    /\ pd_ret # OS_ERROR_GENERIC
    /\ rev = "C" \/ ~ringbuffer_isEmpty(rb)
    /\ LET r == process_data(rev, ctx, rb)
       IN  /\ rb' = r.rb
           /\ ctx' = r.ctx
           /\ validated' = validated \o r.fed
           /\ reports' = reports \o r.reports
           /\ pd' = [used |-> ringbuffer_getUsed(rb), fed |-> Len(r.fed),
                     flushed |-> r.flushed]
           /\ pd_ret' = r.ret
           /\ asserts_ok' = (asserts_ok /\ r.ok)
    /\ UNCHANGED << rev, limit, pc, is_overflow, avail, br_ret, do_ret, run_ret,
                    fifo, overflow, event, ppc, produced, drain, woke, rbVars >>

NextPD == PdCall

SpecPD == InitPD /\ [][NextPD]_vars

\* ------------------------------------------------- the end-to-end scenario
\* The loop of revisions A and B with a ring buffer of E2ECapacity bytes and
\* a stream of E2ETotal uncorrupted bytes.  The driver ran first: the
\* dataport FIFO, of E2EFirstRun bytes, is full and the event is pending, so
\* the first run the tester drains has E2EFirstRun bytes and the rest of the
\* stream arrives while the tester runs.
E2ECapacity == 8
E2EFirstRun == 6
E2ETotal == 10

InitE2E ==
    /\ rev \in {"A", "B"}
    /\ limit = [produced |-> E2ETotal, corrupt |-> 0]
    /\ rb = ringbuffer_init(E2ECapacity)
    /\ produced = [k \in 1..E2EFirstRun |-> StreamByte(k - 1)]
    /\ fifo = [data |-> produced, first |-> 0, cap |-> E2EFirstRun]
    /\ pc = "top"
    /\ ctx = [InitCtx EXCEPT !.watermark =
                IF rev = "B" THEN Watermark(ringbuffer_getCapacity(rb)) ELSE 0]
    /\ is_overflow = FALSE
    /\ avail = 0
    /\ br_ret = "none" /\ pd_ret = "none" /\ do_ret = "none" /\ run_ret = "none"
    /\ asserts_ok = TRUE
    /\ overflow = FALSE
    /\ event = TRUE
    /\ ppc = "idle"
    /\ validated = << >> /\ reports = << >>
    /\ drain = NoDrain /\ pd = NoPd /\ woke = FALSE
    /\ rbIn = << >> /\ rbOut = << >> /\ sumWritten = 0 /\ sumRead = 0
    /\ rbLast = NoCall

SpecE2E == InitE2E /\ [][NextAB]_vars

\* ------------------------------------------------------------------ claims

\* C1: after ringbuffer_init with a capacity C > 0, every state reached by
\* writes, reads, flushes and getReadPtr calls with any requested length has
\* used <= C and head < C.
C1_UsedAndHeadInRange ==
    rb.capacity > 0 => (rb.used <= rb.capacity /\ rb.head < rb.capacity)

\* a full buffer whose head sits at the last offset, after a write that was
\* cut short
C1_Witness ==
    /\ rb.capacity > 1
    /\ rb.used = rb.capacity
    /\ rb.head = rb.capacity - 1
    /\ rbLast.op = "write" /\ rbLast.ret > 0 /\ rbLast.ret < rbLast.len

IsPrefix(p, q) == Len(p) <= Len(q) /\ p = SubSeq(q, 1, Len(p))

\* C2: whenever control is at the top of the main loop, the bytes handed to
\* the validator, then the unread bytes of the ring buffer, then the contents
\* of the dataport FIFO are the sequence the driver enqueued; and at any time
\* the validated bytes are a prefix of the enqueued ones.
C2_Ordering ==
    /\ pc = "top" => validated \o RbContents(rb) \o fifo.data = produced
    /\ pc # "rb" => IsPrefix(validated, produced)

\* revision B at the top of the loop with bytes in all three places: validated ones, a
\* backlog in a ring buffer whose head has moved, and queued ones
C2_Witness ==
    /\ pc = "top" /\ rev = "B"
    /\ Len(validated) > 0
    /\ rb.used > 0 /\ rb.head > 0
    /\ Len(fifo.data) > 0

\* C3: after every call, ringbuffer_getUsed equals the sum of the values the
\* writes returned minus the sum of the values the reads and flushes returned.
C3_UsedIsWrittenMinusRead ==
    ringbuffer_getUsed(rb) = sumWritten - sumRead

\* more bytes went through than the buffer holds, by writes, reads and flushes
C3_Witness ==
    /\ rb.capacity > 0
    /\ sumWritten > rb.capacity
    /\ sumRead > 1
    /\ rb.used > 0
    /\ rbLast.op = "flush" /\ rbLast.ret > 0
    /\ \E i \in 1..Len(rbOut) : rbOut[i] # -1

\* C4: the bytes ringbuffer_read delivers are the bytes ringbuffer_write
\* accepted, at the same positions of the stream (a flush skips its bytes),
\* and the unread bytes are the rest of the accepted stream, in order.
C4_Fifo ==
    /\ Len(rbOut) <= Len(rbIn)
    /\ \A i \in 1..Len(rbOut) : rbOut[i] = -1 \/ rbOut[i] = rbIn[i]
    /\ rb.capacity > 0 =>
          RbContents(rb) = SubSeq(rbIn, Len(rbOut) + 1, Len(rbIn))

\* a read of a whole buffer that started at the last offset: the region read
\* wrapped, and what it delivered is the last capacity bytes written
C4_Witness ==
    /\ rb.capacity > 2
    /\ rbLast.op = "read" /\ rbLast.ret = rb.capacity
    /\ rb.head = rb.capacity - 1
    /\ Len(rbOut) = Len(rbIn)
    /\ rbLast.data = SubSeq(rbIn, Len(rbIn) - rb.capacity + 1, Len(rbIn))

\* a step that leaves the consumer's position p
Leaves(p) == pc = p /\ pc' # p

\* the ring buffer filled up with zero bytes
Filled(self) ==
    ringbuffer_write(self, [k \in 1..ringbuffer_getFree(self) |-> 0],
                     ringbuffer_getFree(self)).rb

\* C5: in every drain step of blocking_read the dataport FIFO loses exactly
\* the bytes ringbuffer_write reported as copied: they are its oldest bytes
\* and arrive at the end of the ring buffer; the number is at most the run
\* length last reported; with 0 copied the FIFO is left as it is; and
\* blocking_read returns OS_SUCCESS.  The loop never drains into a full ring
\* buffer, so that case is stated of the drain step applied to the ring
\* buffer filled up.
C5_DrainReleasesCopied ==
    /\ [](pc = "drain" =>
            LET d == blocking_read_drain(Filled(rb), fifo, avail)
            IN  /\ ringbuffer_isFull(Filled(rb))
                /\ d.copied = 0
                /\ d.fifo = fifo /\ d.rb = Filled(rb)
                /\ d.ret = OS_SUCCESS)
    /\ [][Leaves("drain") =>
         LET copied == drain'.copied
         IN  (/\ drain'.avail = avail
              /\ copied <= avail
              /\ copied = rb'.used - rb.used
              /\ Len(fifo'.data) = Len(fifo.data) - copied
              /\ fifo'.data = SubSeq(fifo.data, copied + 1, Len(fifo.data))
              /\ RbContents(rb') = RbContents(rb) \o SubSeq(fifo.data, 1, copied)
              /\ (copied = 0 => fifo' = fifo)
              /\ br_ret' = OS_SUCCESS
              /\ pc' = "process")]_vars

\* blocking_read returned after a drain that the ring buffer cut short: bytes
\* of the reported run stay in the dataport FIFO
C5_Witness ==
    /\ pc = "process" /\ rev \in {"A", "B"}
    /\ br_ret = OS_SUCCESS
    /\ drain.copied > 0 /\ drain.copied < drain.avail
    /\ drain.released = drain.copied
    /\ Len(fifo.data) >= drain.avail - drain.copied

\* C6: blocking_read returns OS_ERROR_OVERFLOW_DETECTED exactly in an
\* iteration in which the dataport FIFO offered no bytes and the overflow flag
\* was seen set in this call; never in an iteration that found bytes.
C6_FatalIffEmptyAndOverflow ==
    /\ [](br_ret = OS_ERROR_OVERFLOW_DETECTED =>
            /\ pc = "done"
            /\ avail = 0 /\ FifoDataport_isEmpty(fifo)
            /\ is_overflow /\ overflow)
    /\ [][Leaves("get") =>
            ((br_ret' = OS_ERROR_OVERFLOW_DETECTED)
                <=> (FifoDataport_isEmpty(fifo) /\ is_overflow))]_vars

\* blocking_read has returned the overflow error in revision A, after bytes
\* were validated and with everything drained and processed
C6_Witness ==
    /\ rev = "A" /\ pc = "done"
    /\ br_ret = OS_ERROR_OVERFLOW_DETECTED
    /\ Len(validated) > 0
    /\ ringbuffer_isEmpty(rb)

\* C7: the consumer goes to uart_event_wait only from an iteration that found
\* the dataport FIFO empty, with the ring buffer empty and no overflow seen;
\* a wake changes neither the ring buffer nor the validator's state, returns
\* nothing and leads to the overflow check; and an iteration that finds
\* nothing and no overflow goes to wait (again).
C7_WaitOnlyWhenIdle ==
    /\ [](rev \in {"A", "B"} /\ pc = "wait" =>
            /\ avail = 0
            /\ ringbuffer_isEmpty(rb)
            /\ ~is_overflow)
    /\ [][Leaves("get") /\ pc' = "wait" => FifoDataport_isEmpty(fifo)]_vars
    /\ [][Leaves("wait") /\ rev \in {"A", "B"} =>
            (/\ pc' = "check"
             /\ rb' = rb /\ ctx' = ctx /\ validated' = validated
             /\ br_ret' = br_ret /\ pd_ret' = pd_ret /\ do_ret' = do_ret
             /\ fifo' = fifo)]_vars
    /\ [][Leaves("get") /\ FifoDataport_isEmpty(fifo) /\ ~is_overflow
                        /\ ringbuffer_isEmpty(rb) => pc' = "wait"]_vars

\* the consumer waits again after a wake that brought no data
C7_Witness ==
    /\ rev = "A" /\ pc = "wait"
    /\ woke
    /\ FifoDataport_isEmpty(fifo)
    /\ Len(validated) > 0

\* C8: an iteration of blocking_read that finds bytes in the dataport FIFO
\* drains and returns OS_SUCCESS, also when the overflow flag was seen.
C8_DrainFirst ==
    /\ [][Leaves("get") /\ ~FifoDataport_isEmpty(fifo) =>
            (/\ pc' = "drain" /\ avail' > 0
             /\ br_ret' # OS_ERROR_OVERFLOW_DETECTED /\ do_ret' = "none")]_vars
    /\ [][Leaves("drain") =>
            (/\ br_ret' = OS_SUCCESS /\ pc' = "process" /\ do_ret' = "none")]_vars

\* blocking_read returned OS_SUCCESS from a drain although it had seen the
\* overflow flag
C8_Witness ==
    /\ pc = "process" /\ rev \in {"A", "B"}
    /\ is_overflow
    /\ br_ret = OS_SUCCESS
    /\ avail > 0 /\ drain.copied > 0

\* C9 (as claimed): the loop ends only on a fatal overflow or on an error of
\* process_data, and run() then returns a non-zero result code.
FatalOverflow ==
    br_ret = OS_ERROR_OVERFLOW_DETECTED \/ do_ret = OS_ERROR_OVERFLOW_DETECTED
C9_NonZeroResult ==
    pc = "done" =>
        /\ FatalOverflow \/ pd_ret = OS_ERROR_GENERIC
        /\ run_ret = run(rev, do_ret) /\ run(rev, do_ret) # 0

\* C10 (as claimed): once the overflow flag is set while the loop runs, the
\* loop ends with the fatal overflow result.
C10_OverflowEndsFatal ==
    (rev \in {"A", "B"} /\ overflow /\ pc # "done")
        ~> (pc = "done" /\ br_ret = OS_ERROR_OVERFLOW_DETECTED)

\* C10 (amended): once the overflow flag is set while the loop runs, the loop
\* ends: with the fatal overflow result and an empty dataport FIFO, or before
\* that with the error of process_data on a mismatch.
C10_OverflowEnds ==
    (rev \in {"A", "B"} /\ overflow /\ pc # "done")
        ~> (pc = "done" /\ run_ret = -1
              /\ \/ br_ret = OS_ERROR_OVERFLOW_DETECTED /\ FifoDataport_isEmpty(fifo)
                 \/ pd_ret = OS_ERROR_GENERIC)

\* the loop ended with the fatal overflow result after it had validated every
\* byte the driver enqueued before the overflow
C10_Witness ==
    /\ rev = "A" /\ pc = "done" /\ overflow
    /\ br_ret = OS_ERROR_OVERFLOW_DETECTED
    /\ run_ret = -1
    /\ validated = produced /\ Len(produced) >= fifo.cap

\* C11: ringbuffer_write(src, len) returns n = min(len, capacity - used),
\* adds n to used, leaves head and capacity alone, stores src[0..n-1] at the
\* positions (head + used + i) mod capacity and nothing anywhere else, and
\* none of its assertions fails.
C11_Write ==
    [][rbLast'.op = "write" =>
         LET len == rbLast'.len
             n == rbLast'.ret
             src == NextSrc(len)
             at(i) == (rb.head + rb.used + i) % rb.capacity
         IN  (/\ n = Min(len, rb.capacity - rb.used)
              /\ rb'.used = rb.used + n
              /\ rb'.head = rb.head
              /\ rb'.capacity = rb.capacity
              /\ \A i \in 0..(n - 1) : rb'.buffer[at(i)] = src[i + 1]
              /\ \A j \in DOMAIN rb.buffer :
                     (\A i \in 0..(n - 1) : j # at(i)) => rb'.buffer[j] = rb.buffer[j]
              /\ DOMAIN rb'.buffer = DOMAIN rb.buffer
              /\ ringbuffer_write(rb, src, len).ok)]_vars

\* a write has just stored bytes on both sides of the end of the storage,
\* and was cut short by the free space
C11_Witness ==
    /\ rbLast.op = "write"
    /\ rbLast.ret >= 2 /\ rbLast.ret < rbLast.len
    /\ rb.head + rb.used - rbLast.ret < rb.capacity
    /\ rb.head + rb.used > rb.capacity

\* C12: ringbuffer_read(dst, len) and ringbuffer_flush(len) return
\* n = min(len, used), move head to (head + n) mod capacity (head stays where
\* it is when n = 0, which is all a buffer of capacity 0 allows) and take n
\* from used, without touching the storage; read delivers the n oldest bytes
\* in FIFO order, flush delivers nothing.
C12_ReadFlush ==
    [][rbLast'.op \in {"read", "flush"} =>
         LET len == rbLast'.len
             n == rbLast'.ret
         IN  (/\ n = Min(len, rb.used)
              /\ rb'.head = IF n = 0 THEN rb.head
                            ELSE (rb.head + n) % rb.capacity
              /\ rb'.used = rb.used - n
              /\ rb'.capacity = rb.capacity
              /\ rb'.buffer = rb.buffer
              /\ rbLast'.op = "read" =>
                     rbLast'.data = SubSeq(RbContents(rb), 1, n)
              /\ rbLast'.op = "flush" =>
                     /\ rbLast'.data = << >>
                     /\ rb' = ringbuffer_read(rb, TRUE, len).rb
                     /\ n = ringbuffer_read(rb, TRUE, len).ret)]_vars

\* a read has just delivered bytes from both sides of the end of the storage
\* and was cut short by the bytes in use
C12_Witness ==
    /\ rbLast.op = "read"
    /\ rbLast.ret >= 2 /\ rbLast.ret < rbLast.len
    /\ rb.head > 0 /\ rb.head < rbLast.ret
    /\ Len(rbLast.data) = rbLast.ret

\* C13: ringbuffer_getReadPtr returns the position head and the length
\* min(used, capacity - head): the unread bytes from head up to the end of the
\* storage, which is all of them unless they wrap; it changes neither head,
\* used nor the stored bytes.
C13_GetReadPtr ==
    [][rbLast'.op = "getReadPtr" =>
         LET ptr == rbLast'.len
             n == rbLast'.ret
         IN  (/\ ptr = rb.head
              /\ n = Min(rb.used, rb.capacity - rb.head)
              /\ n = rb.used \/ rb.head + n = rb.capacity
              /\ \A k \in 1..n : rb.buffer[ptr + k - 1] = RbContents(rb)[k]
              /\ rb' = rb)]_vars

\* getReadPtr has just returned a run shorter than the unread bytes, which
\* wrap
C13_Witness ==
    /\ rbLast.op = "getReadPtr"
    /\ rbLast.ret >= 1 /\ rbLast.ret < rb.used
    /\ rbLast.len = rb.head /\ rb.head > 0

\* C14: in every state of the ring buffer and for every n up to the length
\* ringbuffer_getReadPtr returns, the first n bytes at the returned pointer
\* are the bytes ringbuffer_read(buf, n) delivers, and ringbuffer_flush(n)
\* leaves the same head and used as that read, both returning n.
C14_ReadPtrFlushIsRead ==
    LET g == ringbuffer_getReadPtr(rb)
    IN  \A n \in 0..g.ret :
            LET r == ringbuffer_read(rb, TRUE, n)
                f == ringbuffer_flush(rb, n)
            IN  /\ RegionBytes(rb, g.ptr, n) = r.data
                /\ f.rb.head = r.rb.head /\ f.rb.used = r.rb.used
                /\ f.rb = r.rb
                /\ f.ret = n /\ r.ret = n

\* the ring buffer holds a run of two or more bytes away from the start of
\* the storage, and getReadPtr has just been called on it
C14_Witness ==
    /\ rbLast.op = "getReadPtr"
    /\ rb.head > 0
    /\ ringbuffer_getReadPtr(rb).ret >= 2
    /\ rbLast.ret = ringbuffer_getReadPtr(rb).ret

\* C15 (as claimed): for every capacity, 0 included, ringbuffer_getReadPtr on
\* an empty ring buffer returns the length 0 and none of its assertions
\* fails.
C15_GetReadPtrEmpty ==
    ringbuffer_isEmpty(rb) =>
        /\ ringbuffer_getReadPtr(rb).ret = 0
        /\ ringbuffer_getReadPtr(rb).ok

\* C16: ringbuffer_write into a full ring buffer returns 0 and changes
\* nothing; ringbuffer_read and ringbuffer_flush on an empty one return 0 and
\* change nothing; and a ring buffer of capacity 0 is full and empty in
\* every state, every write, read and flush on it returning 0.
C16_Boundaries ==
    /\ [][(rbLast'.op = "write" /\ ringbuffer_isFull(rb))
            => (rbLast'.ret = 0 /\ rb' = rb)]_vars
    /\ [][(rbLast'.op \in {"read", "flush"} /\ ringbuffer_isEmpty(rb))
            => (rbLast'.ret = 0 /\ rbLast'.data = << >> /\ rb' = rb)]_vars
    /\ [](rb.capacity = 0 => (ringbuffer_isFull(rb) /\ ringbuffer_isEmpty(rb)))
    /\ [][(rb.capacity = 0 /\ rbLast'.op \in {"write", "read", "flush"})
            => (rbLast'.ret = 0 /\ rb' = rb)]_vars

\* a write of several bytes into a full ring buffer with storage has just
\* returned 0
C16_Witness ==
    /\ rbLast.op = "write" /\ rbLast.len >= 2 /\ rbLast.ret = 0
    /\ rb.capacity >= 2 /\ ringbuffer_isFull(rb)
    /\ rb.head > 0

\* C17: ringbuffer_flush(0), ringbuffer_read(dst, 0) and
\* ringbuffer_write(src, 0) return 0 and leave head, used and the stored
\* bytes as they are, in every state and so however often they are called.
C17_ZeroLength ==
    /\ [][(rbLast'.op \in {"write", "read", "flush"} /\ rbLast'.len = 0)
            => (rbLast'.ret = 0 /\ rbLast'.data = << >> /\ rb' = rb)]_vars
    /\ [](/\ ringbuffer_write(rb, << >>, 0).rb = rb
          /\ ringbuffer_write(rb, << >>, 0).ret = 0
          /\ ringbuffer_read(rb, TRUE, 0).rb = rb
          /\ ringbuffer_read(rb, TRUE, 0).ret = 0
          /\ ringbuffer_flush(rb, 0).rb = rb
          /\ ringbuffer_flush(rb, 0).ret = 0)

\* flush(0) has just been called on a ring buffer that holds bytes, with the
\* head away from the start
C17_Witness ==
    /\ rbLast.op = "flush" /\ rbLast.len = 0 /\ rbLast.ret = 0
    /\ rb.used > 0 /\ rb.head > 0

\* C18: a call of do_process with the byte b returns an error exactly when b
\* differs from expecting_byte; afterwards expecting_byte is (b + 1) mod 256
\* and bytes_processed is one more, mismatch or not; and the diagnostic of a
\* mismatch carries the zero-based position of b in the stream, the byte
\* that was expected and b.  Stated of the calls made and of the call with
\* each of the 256 bytes in every state reached.
C18_DoProcess ==
    /\ [][(pc = "v" /\ Len(validated') = Len(validated) + 1) =>
            LET b == validated'[Len(validated')]
            IN  (/\ (pd_ret' # OS_SUCCESS) <=> (b # ctx.expecting_byte)
                 /\ ctx'.expecting_byte = (b + 1) % ByteMod
                 /\ ctx'.bytes_processed = ctx.bytes_processed + 1
                 /\ reports' =
                       IF b # ctx.expecting_byte
                       THEN Append(reports,
                                   [bytes_processed |-> Len(validated),
                                    expected |-> ctx.expecting_byte,
                                    read |-> b,
                                    window |-> ctx'.data_window])
                       ELSE reports)]_vars
    /\ [](pc = "v" =>
            \A b \in 0..(ByteMod - 1) :
                LET r == do_process(rev, ctx, b)
                IN  /\ (r.ret # OS_SUCCESS) <=> (b # ctx.expecting_byte)
                    /\ r.ctx.expecting_byte = (b + 1) % ByteMod
                    /\ r.ctx.bytes_processed = ctx.bytes_processed + 1
                    /\ (Len(r.report) = 1) <=> (b # ctx.expecting_byte)
                    /\ \A i \in DOMAIN r.report :
                           r.report[i].bytes_processed = Len(validated))
    /\ [](pc = "v" =>
            \A i \in DOMAIN reports :
                /\ validated[reports[i].bytes_processed + 1] = reports[i].read
                /\ reports[i].read # reports[i].expected)

\* do_process has just rejected the byte 255 at a later position of the
\* stream, after an earlier mismatch, and now expects 0
C18_Witness ==
    /\ pc = "v"
    /\ pd_ret = OS_ERROR_INVALID_STATE
    /\ Len(reports) = 2
    /\ validated[Len(validated)] = ByteMod - 1
    /\ reports[2].bytes_processed = Len(validated) - 1
    /\ reports[2].bytes_processed > reports[1].bytes_processed + 1
    /\ ctx.expecting_byte = 0

\* the first n bytes of the uncorrupted stream 0, 1, ..., 255, 0, 1, ...
CleanStream(n) == [k \in 1..n |-> StreamByte(k - 1)]

\* C19: from the initial context, after the uncorrupted stream of any length
\* was fed to the validator, byte by byte or in batches of any sizes, no
\* mismatch has been reported and no call has failed, and expecting_byte is
\* the length mod 256, so that it passes from 255 to 0.
C19_CleanStream ==
    (pc = "v" /\ validated = CleanStream(Len(validated))) =>
        /\ reports = << >>
        /\ pd_ret \in {"none", OS_SUCCESS}
        /\ ctx.expecting_byte = Len(validated) % ByteMod
        /\ ctx.bytes_processed = Len(validated)

\* the uncorrupted stream was fed past the wrap of expecting_byte, the last
\* bytes 255 and 0 in one batch
C19_Witness ==
    /\ pc = "v"
    /\ Len(validated) = ByteMod + 1
    /\ validated = CleanStream(Len(validated))
    /\ pd.used >= 2 /\ pd.fed = pd.used
    /\ ctx.expecting_byte = 1
    /\ reports = << >>

\* the sequence 0,1,2,99,4,5
CorruptedStream == << 0, 1, 2, CorruptByte, 4, 5 >>

\* the diagnostics of the first two mismatches in CorruptedStream
FirstMismatches ==
    /\ reports[1].bytes_processed = 3
    /\ reports[1].expected = 3 /\ reports[1].read = CorruptByte
    /\ reports[2].bytes_processed = 4
    /\ reports[2].expected = (CorruptByte + 1) % ByteMod /\ reports[2].read = 4

\* C20 (as claimed): after 0,1,2,99,4,5 was fed from the initial context,
\* three mismatches have been reported: 99 at position 3 where 3 was
\* expected, 4 against the expectation 100, and 5 likewise.
C20_Cascade ==
    (pc = "v" /\ validated = CorruptedStream) =>
        /\ Len(reports) = 3
        /\ FirstMismatches
        /\ reports[3].bytes_processed = 5 /\ reports[3].read = 5

\* C20 (amended): feeding 0,1,2,99,4,5 from the initial context reports 99 at
\* position 3 where 3 was expected, then 4 against the expectation 100; that
\* sets the expectation to 5, so the byte 5 matches and two mismatches have
\* been reported in all.
C20_Resync ==
    /\ (pc = "v" /\ validated = SubSeq(CorruptedStream, 1, 4)) =>
            /\ Len(reports) = 1
            /\ reports[1].bytes_processed = 3
            /\ reports[1].expected = 3 /\ reports[1].read = CorruptByte
            /\ ctx.expecting_byte = (CorruptByte + 1) % ByteMod
    /\ (pc = "v" /\ validated = SubSeq(CorruptedStream, 1, 5)) =>
            /\ Len(reports) = 2
            /\ FirstMismatches
            /\ ctx.expecting_byte = 5
    /\ (pc = "v" /\ validated = CorruptedStream) =>
            /\ Len(reports) = 2
            /\ FirstMismatches
            /\ pd_ret = OS_SUCCESS
            /\ ctx.expecting_byte = 6

\* 0,1,2,99,4,5 has been fed, the last byte accepted
C20_Witness ==
    /\ pc = "v"
    /\ validated = CorruptedStream
    /\ Len(reports) = 2
    /\ pd_ret = OS_SUCCESS

\* the bytes at the zero-based positions p+1..q continue the byte at p:
\* b+1, b+2, ... mod 256
Continues(p, q) ==
    \A k \in (p + 1)..q :
        validated[k + 1] = (validated[p + 1] + (k - p)) % ByteMod

\* C21: after a mismatch on the byte b, as long as the bytes that follow are
\* b+1, b+2, ... (mod 256) none of them is reported: no diagnostic belongs to
\* a position up to which the stream continues a reported byte.
C21_ResyncStops ==
    pc = "v" =>
        \A i \in DOMAIN reports :
            \A q \in (reports[i].bytes_processed + 1)..(Len(validated) - 1) :
                Continues(reports[i].bytes_processed, q) =>
                    \A j \in DOMAIN reports : reports[j].bytes_processed # q

\* the byte 255 was rejected in mid-stream and the bytes 0, 1, 2 that follow
\* it were accepted
C21_Witness ==
    /\ pc = "v"
    /\ Len(reports) = 1
    /\ reports[1].bytes_processed >= 2
    /\ reports[1].read = ByteMod - 1
    /\ Len(validated) = reports[1].bytes_processed + 4
    /\ Continues(reports[1].bytes_processed, Len(validated) - 1)
    /\ ctx.expecting_byte = 3
    /\ pd_ret = OS_SUCCESS

\* the last WindowSize bytes of seq in order, zero-filled on the left
TrailingWindow(seq) ==
    [k \in 1..WindowSize |->
        IF Len(seq) - WindowSize + k >= 1
        THEN seq[Len(seq) - WindowSize + k] ELSE 0]

\* C22 (as claimed): in every revision, data_window holds the bytes processed
\* last in arrival order, the newest in the last slot and zeros on the left
\* while fewer than 6 were processed, and the window of a mismatch diagnostic
\* ends with the mismatching byte.
C22_Window ==
    /\ ctx.data_window = TrailingWindow(validated)
    /\ \A i \in DOMAIN reports :
           reports[i].window[WindowSize] = reports[i].read

Max(a, b) == IF a > b THEN a ELSE b

\* the quota the watermark rule asks for at the fill level used
WatermarkQuota(self) ==
    LET watermark == (self.capacity \div 2) + (self.capacity \div 4)
    IN  IF self.used <= watermark THEN 16
        ELSE Max(16, self.used - watermark)

\* C23: in revision B the watermark is capacity/2 + capacity/4 and the quota
\* of a call of process_data is 16 at a fill level up to the watermark and
\* max(16, fill level - watermark) above it, never a wrapped difference; a
\* call that meets no mismatch processes that many bytes, or all there are.
C23_WatermarkQuota ==
    /\ []((pc = "pd" /\ rev = "B") =>
            /\ ctx.watermark = (rb.capacity \div 2) + (rb.capacity \div 4)
            /\ Quota = WatermarkQuota(rb)
            /\ Quota <= Max(16, rb.capacity))
    /\ [][(pc = "pd" /\ rev = "B" /\ pd_ret' = OS_SUCCESS) =>
            pd'.fed = Min(WatermarkQuota(rb), rb.used)]_vars

\* a call at a fill level more than 16 above the watermark has processed
\* fill level - watermark bytes and left bytes behind
C23_Witness ==
    /\ pc = "pd" /\ rev = "B"
    /\ pd_ret = OS_SUCCESS
    /\ pd.used > ctx.watermark + 16
    /\ pd.fed = pd.used - ctx.watermark
    /\ rb.used = ctx.watermark

\* C24 (as claimed): a call of process_data passes at most quota bytes to
\* do_process and flushes at most quota bytes, and without a mismatch it
\* validates and flushes exactly min(quota, fill level at entry) bytes.
C24_QuotaBounds ==
    [][pc = "pd" =>
         (/\ pd'.fed <= Quota
          /\ pd'.flushed <= Quota
          /\ pd_ret' = OS_SUCCESS =>
                 /\ pd'.fed = Min(Quota, rb.used)
                 /\ pd'.flushed = Min(Quota, rb.used))]_vars

\* the most bytes one call may process: the quota in revision B, one more in
\* revision C, which tests the quota after each byte
QuotaLimit == IF rev = "B" THEN Quota ELSE Quota + 1

\* C24 (amended): a call of process_data passes at most QuotaLimit bytes to
\* do_process and flushes at most that many; they are the oldest bytes of
\* the ring buffer in order and the rest stays; without a mismatch it
\* validates and flushes exactly min(QuotaLimit, fill level at entry) bytes.
C24_QuotaLimitBounds ==
    [][pc = "pd" =>
         (/\ pd'.fed <= QuotaLimit
          /\ pd'.flushed <= pd'.fed
          /\ validated' = validated \o SubSeq(RbContents(rb), 1, pd'.fed)
          /\ RbContents(rb') =
                 SubSeq(RbContents(rb), pd'.flushed + 1, rb.used)
          /\ pd_ret' = OS_SUCCESS =>
                 /\ pd'.fed = Min(QuotaLimit, rb.used)
                 /\ pd'.flushed = Min(QuotaLimit, rb.used))]_vars

\* a call of revision B has used up its quota of 16 on two regions, one on
\* each side of the end of the storage, and left bytes behind
C24_Witness ==
    /\ pc = "pd" /\ rev = "B"
    /\ pd_ret = OS_SUCCESS
    /\ pd.fed = 16 /\ pd.flushed = 16 /\ pd.used > 16
    /\ rb.head > 0 /\ rb.head < pd.fed
    /\ ~ringbuffer_isEmpty(rb)

\* C25: a call of process_data on a non-empty ring buffer passes at least
\* one byte to do_process, the oldest one, whatever the quota is (0
\* included), and unless that byte is rejected the ring buffer holds fewer
\* bytes afterwards.
C25_Progress ==
    [][(pc = "pd" /\ ~ringbuffer_isEmpty(rb)) =>
         (/\ pd'.fed >= 1
          /\ Len(validated') >= Len(validated) + 1
          /\ validated'[Len(validated) + 1] = RbContents(rb)[1]
          /\ pd_ret' = OS_SUCCESS => rb'.used < rb.used)]_vars

\* a call of revision C with the quota 0 has processed one byte of several
C25_Witness ==
    /\ pc = "pd" /\ rev = "C"
    /\ ctx.processing_boost = 0
    /\ pd_ret = OS_SUCCESS
    /\ pd.used >= 2 /\ pd.fed = 1 /\ pd.flushed = 1
    /\ rb.used = pd.used - 1

\* C29: in revision B, once process_data has returned OS_SUCCESS (the call
\* on its own, or the loop back at the entry of blocking_read) the ring
\* buffer holds at most watermark bytes, so at least capacity - watermark
\* bytes of it are free for the next drain.
C29_BelowWatermark ==
    (rev = "B" /\ pc \in {"pd", "top"} /\ pd_ret = OS_SUCCESS) =>
        /\ ringbuffer_getUsed(rb) <= ctx.watermark
        /\ ringbuffer_getFree(rb) >= ringbuffer_getCapacity(rb) - ctx.watermark

\* a call on a full ring buffer has left exactly watermark bytes behind
C29_Witness ==
    /\ rev = "B" /\ pc = "pd" /\ pd_ret = OS_SUCCESS
    /\ pd.used = ringbuffer_getCapacity(rb)
    /\ pd.fed > DefaultBoost
    /\ ringbuffer_getUsed(rb) = ctx.watermark
    /\ ringbuffer_getFree(rb) = ringbuffer_getCapacity(rb) - ctx.watermark

\* C30: in revision C, after read_data found new data the processing boost
\* is 16 at a fill level up to the watermark, 16 or fill level - watermark
\* above it, and never a wrapped difference.
C30_BoostNeverWraps ==
    [][(pc = "c_read" /\ avail' > 0) =>
         LET used == pd'.used
             watermark == Watermark(ringbuffer_getCapacity(rb))
         IN  /\ used <= watermark => ctx'.processing_boost = ReadBoostC
             /\ used > watermark =>
                    ctx'.processing_boost \in {ReadBoostC, used - watermark}
             /\ ctx'.processing_boost <= Max(ReadBoostC, ringbuffer_getCapacity(rb))]_vars

\* C28: whenever blocking_read has returned OS_SUCCESS the ring buffer, of
\* a capacity above 0, is not empty: after a drain that copied bytes, after
\* a drain into a full ring buffer that copied none (the loop never gets
\* there, so that path is stated of the drain step applied to the ring
\* buffer filled up), and on the backlog path; and the assertion before
\* process_data has never failed.
C28_SuccessMeansData ==
    /\ asserts_ok
    /\ (pc = "process" /\ br_ret = OS_SUCCESS) =>
           /\ ringbuffer_getCapacity(rb) > 0
           /\ ~ringbuffer_isEmpty(rb)
           /\ drain.copied > 0 \/ avail = 0
    /\ pc = "drain" =>
           LET d == blocking_read_drain(rb, fifo, avail)
               e == blocking_read_drain(Filled(rb), fifo, avail)
           IN  /\ d.ret = OS_SUCCESS /\ ~ringbuffer_isEmpty(d.rb)
               /\ e.ret = OS_SUCCESS /\ e.copied = 0
               /\ ~ringbuffer_isEmpty(e.rb)

\* blocking_read has returned OS_SUCCESS with nothing new in the dataport
\* FIFO, on the bytes the last call of process_data left behind
C28_Witness ==
    /\ pc = "process" /\ rev = "B"
    /\ br_ret = OS_SUCCESS
    /\ avail = 0 /\ FifoDataport_isEmpty(fifo)
    /\ pd_ret = OS_SUCCESS /\ pd.flushed < pd.used
    /\ ~ringbuffer_isEmpty(rb)

\* C26: with a ring buffer of 8 bytes and the stream 0..9, of which the
\* dataport FIFO hands out the first 6 as one run: the quota of a call of
\* process_data is 16, no mismatch is ever reported, the validated bytes are
\* always the first bytes of the stream, and once the whole stream was
\* enqueued and drained and process_data has returned, all 10 bytes have been
\* validated in order and the ring buffer is empty.
C26_EndToEnd ==
    /\ asserts_ok
    /\ reports = << >>
    /\ Len(validated) <= Len(produced)
    /\ validated = SubSeq(produced, 1, Len(validated))
    /\ (rev = "B" /\ pc = "process") => BoostB(ctx, rb) = DefaultBoost
    /\ (validated = << >> /\ pc = "process") => drain.copied = E2EFirstRun
    /\ (/\ Len(produced) = E2ETotal
        /\ FifoDataport_isEmpty(fifo)
        /\ pc \notin {"drain", "process"}) =>
           /\ validated = CleanStream(E2ETotal)
           /\ ctx.bytes_processed = E2ETotal
           /\ ringbuffer_isEmpty(rb)
           /\ pd_ret = OS_SUCCESS

\* the second run, of the 4 bytes left, has been drained whole into the
\* wrapping ring buffer and processed
C26_Witness ==
    /\ rev = "B" /\ pc = "top"
    /\ drain.avail = E2ETotal - E2EFirstRun
    /\ drain.copied = drain.avail
    /\ pd.used = drain.avail /\ pd.fed = pd.used
    /\ Len(validated) = E2ETotal
    /\ rb.head < E2EFirstRun
    /\ ringbuffer_isEmpty(rb)

\* C27: in every revision, under every interleaving of the driver's enqueue
\* and signal with the tester's steps: while the tester is in
\* uart_event_wait and the dataport FIFO holds data, the event is pending or
\* the driver still owes its signal; the tester then leaves uart_event_wait;
\* and every byte the driver enqueued is eventually passed to the validator,
\* unless the overflow flag is set or a mismatch is reported.
C27_NoLostWakeup ==
    /\ []((pc = "wait" /\ ~FifoDataport_isEmpty(fifo)) => (event \/ ppc = "sig"))
    /\ (pc = "wait" /\ ~FifoDataport_isEmpty(fifo)) ~> (pc # "wait")
    /\ \A n \in 1..MaxProducedSmall :
          (Len(produced) >= n) ~>
              (\/ Len(validated) >= n /\ validated = SubSeq(produced, 1, Len(validated))
               \/ overflow
               \/ reports # << >>)

\* the driver enqueued a byte after the tester found nothing to do and
\* before the tester waits, and has not signalled yet
C27_Witness ==
    /\ pc = "wait"
    /\ ~FifoDataport_isEmpty(fifo)
    /\ ~event /\ ppc = "sig"
    /\ woke /\ Len(validated) > 0

\* a transfer of n > 0 bytes from position pos of the storage is split
\* properly: a first copy of len1 > 0 bytes inside the storage and, if that
\* is not all, a first copy that ends at the end of the storage and a second
\* one of the n - len1 bytes left from offset 0, the two covering the
\* positions (pos + i) mod capacity, each once
SplitInTwo(self, pos, n) ==
    n > 0 =>
        LET len1 == ringbuffer_getCappedLen(self, pos, n)
            first == {pos + i : i \in 0..(len1 - 1)}
            second == 0..(n - len1 - 1)
        IN  /\ len1 > 0 /\ len1 <= n
            /\ pos + len1 <= self.capacity
            /\ n > len1 => (pos + len1 = self.capacity /\ n - len1 <= pos)
            /\ first \cap second = {}
            /\ first \cup second = {(pos + i) % self.capacity : i \in 0..(n - 1)}
            /\ first \cup second \subseteq DOMAIN self.buffer

\* C31: with a capacity above 0, no assertion of ringbuffer_write,
\* ringbuffer_read, ringbuffer_flush or ringbuffer_getReadPtr has failed or
\* fails in any state reached, whatever length is requested (0, more than
\* is free or in use, more than the capacity), and every transfer is split
\* properly; ringbuffer_getReadPtr hands out a region inside the storage.
C31_NoAssertFails ==
    ringbuffer_getCapacity(rb) > 0 =>
        /\ asserts_ok
        /\ ringbuffer_getReadPtr(rb).ok
        /\ ringbuffer_getReadPtr(rb).ptr + ringbuffer_getReadPtr(rb).ret
              <= ringbuffer_getCapacity(rb)
        /\ \A len \in 0..(MaxLen + 1) :
              /\ ringbuffer_write(rb, [k \in 1..len |-> 0], len).ok
              /\ ringbuffer_read(rb, TRUE, len).ok
              /\ ringbuffer_flush(rb, len).ok
              /\ SplitInTwo(rb, ringbuffer_writePos(rb),
                            Min(len, ringbuffer_getFree(rb)))
              /\ SplitInTwo(rb, rb.head, Min(len, ringbuffer_getUsed(rb)))

\* a read has just delivered bytes from both sides of the end of the
\* storage, and a write of more than is free would now need two copies
C31_Witness ==
    /\ asserts_ok
    /\ rbLast.op = "read" /\ rbLast.ret >= 2 /\ rbLast.len > rbLast.ret
    /\ rb.head > 0 /\ rb.head < rbLast.ret
    /\ ringbuffer_writePos(rb) + ringbuffer_getFree(rb) > ringbuffer_getCapacity(rb)
    /\ ringbuffer_writePos(rb) > 0

\* C32: after every call of process_data, the error return included, the
\* call has flushed as many bytes as it passed to do_process, and
\* bytes_processed is the number of bytes that have left the ring buffer
\* (the bytes drained from the dataport FIFO that it no longer holds).
C32_FlushedIsFed ==
    /\ pd.flushed = pd.fed
    /\ ctx.bytes_processed =
          Len(produced) - Len(fifo.data) - ringbuffer_getUsed(rb)

\* C33: in revision B, when the loop has ended with the fatal overflow
\* result the ring buffer is empty and every byte drained from the dataport
\* FIFO has been passed to the validator.
C33_FatalOverflowEmpty ==
    (rev = "B" /\ pc = "done" /\ br_ret = OS_ERROR_OVERFLOW_DETECTED) =>
        /\ ringbuffer_isEmpty(rb)
        /\ Len(validated) = Len(produced) - Len(fifo.data)
        /\ validated = SubSeq(produced, 1, Len(validated))

====
